---- MODULE Spec2Model ----
(***************************************************************************)
(* A model of bfc.py, a Brainfuck compiler that emits a 32-bit Linux ELF   *)
(* executable: lexer, recursive-descent parser, run-length optimizer, x86  *)
(* code generator, ELF writer and the main program that chains them.       *)
(*                                                                         *)
(* Python objects live in a heap (a sequence of records, an object's       *)
(* identity being its index), because the optimizer hands nodes of its     *)
(* input on to its result and updates them in place.                       *)
(*                                                                         *)
(* A Python loop over a list is written as an operator over an index       *)
(* range lo..hi that runs the loop body on lo, lo+1, ..., hi in that       *)
(* order; the range is split in halves only to keep the evaluation         *)
(* shallow, the iterations and their order are those of the source.        *)
(***************************************************************************)
EXTENDS Integers, Sequences, FiniteSets, TLC

VARIABLES
    pc,         \* the statement of the main program that runs next
    argc,       \* len(sys.argv)
    infile,     \* the input file: whether it can be read, and its contents
    outfile,    \* the output file: whether it exists, and its bytes
    outmode,    \* the permission bits of the output file (0 while it does not exist)
    opened,     \* whether open(filename, 'wb') was ever called
    source,     \* main's variable source
    tokens,     \* main's variable tokens
    heap,       \* the AST node objects, by identity
    tree,       \* main's variable tree: the identity of the root node
    code,       \* main's variable code
    stderr,     \* the lines written to sys.stderr
    status,     \* the exit status, or NoExit while the process runs
    stages,     \* the stages that have run to completion, in order
    stdin,      \* the bytes on the emitted program's standard input
    cpu,        \* the 80386 that runs the emitted program
    ref         \* the reference Brainfuck machine that runs the source

mainvars == <<pc, argc, infile, outfile, outmode, opened, source, tokens, heap,
              tree, code, stderr, status, stages>>

execvars == <<stdin, cpu, ref>>

vars == <<mainvars, execvars>>

----------------------------------------------------------------------------
(* Bounds of the model and the inputs drawn within them *)

MaxLen == 3

MaxRun == 511

None == "None"
NoExit == "NoExit"

Rep(c, n) == [i \in 1..n |-> c]

\* every character of the language, and one that is a comment
Alphabet == {">", "<", "+", "-", ".", ",", "[", "]", "#"}

ShortSources == UNION {[1..n -> Alphabet] : n \in 0..MaxLen}

\* run lengths around the 8-bit limits, up to MaxRun
RunLengths == {2, 127, 128, 254, 255, 256, 510, MaxRun}

RunSources ==
    {Rep(c, n) : c \in {">", "<", "+", "-"}, n \in RunLengths}
    \cup {<<"+", "[">> \o Rep(c, n) \o <<"]", c>> : c \in {">", "-"}, n \in RunLengths}
    \cup {Rep("+", n) \o <<"#">> \o Rep("+", 2) \o <<".">> \o Rep(">", n) : n \in RunLengths}

\* the programs the documentation runs end to end, and deeper nestings
NamedSources ==
    { <<"+", "+", ">", "+", "+", "+", "<", "[", "-", ">", "+", "<", "]", ">", ".">>,
      Rep("+", 8) \o <<"[", ">">> \o Rep("+", 8) \o <<"<", "-", "]", ">", "+", ".">>,
      <<",", ".">>,
      <<"[", "+">>,
      <<"+", "[", "[", "-", "]", ">", "[", ",", ".", "]", "<", "<", "]">>,
      <<"[", "[", "[", "]", "]", "]", "]">>,
      <<"[", "[", "+", "+", "]", ">", ">">>,
      <<"[", "[", "+", "[", "-", "]", "]", ">", "]">> }

Sources == ShortSources \cup RunSources \cup NamedSources

----------------------------------------------------------------------------
(* Lexer *)

TokenOf(char) ==
    CASE char = ">" -> "IncPtrToken"
      [] char = "<" -> "DecPtrToken"
      [] char = "+" -> "IncByteToken"
      [] char = "-" -> "DecByteToken"
      [] char = "." -> "OutputToken"
      [] char = "," -> "InputToken"
      [] char = "[" -> "LoopStartToken"
      [] char = "]" -> "LoopEndToken"
      [] OTHER -> None

\* Lexer.tokenize: one token per command character, in order; the rest is dropped
Tokenize(src) ==
    LET commands == SelectSeq(src, LAMBDA ch : TokenOf(ch) # None)
    IN  [i \in 1..Len(commands) |-> TokenOf(commands[i])]

----------------------------------------------------------------------------
(* AST nodes *)

MergeableTypes == {"IncPtrNode", "DecPtrNode", "IncByteNode", "DecByteNode"}

\* isinstance(n, MergeableNode)
IsMergeable(n) == n.type \in MergeableTypes

\* MergeableNode(count = 1) for the four subclasses
NewMergeable(type) == [type |-> type, count |-> 1]

NewLeaf(type) == [type |-> type]

\* ProgramNode(nodes) and LoopNode(nodes)
NewContainer(type, nodes) == [type |-> type, nodes |-> nodes]

\* Python's None, where a node is expected
NoneObject == [type |-> "NoneType"]

\* MergeableNode.__eq__(self, other): isinstance(other, self.__class__)
NodeEq(self, other) == other.type = self.type

\* a new object in the heap; its identity is its index
Alloc(h, obj) == Append(h, obj)

----------------------------------------------------------------------------
(* Parser *)

EofMessage == "unexpected end of file"

\* 'unexpected token ' + str(tok), str(tok) being the token's class name
UnexpectedToken(tok) ==
    CASE tok = "IncPtrToken" -> "unexpected token IncPtrToken"
      [] tok = "DecPtrToken" -> "unexpected token DecPtrToken"
      [] tok = "IncByteToken" -> "unexpected token IncByteToken"
      [] tok = "DecByteToken" -> "unexpected token DecByteToken"
      [] tok = "OutputToken" -> "unexpected token OutputToken"
      [] tok = "InputToken" -> "unexpected token InputToken"
      [] tok = "LoopStartToken" -> "unexpected token LoopStartToken"
      [] tok = "LoopEndToken" -> "unexpected token LoopEndToken"

\* Parser.eof; index counts the tokens read
ParserEof(toks, index) == index = Len(toks)

\* Parser.peek when it does not raise
Peek(toks, index) == toks[index + 1]

CommandNode(tok) ==
    CASE tok = "IncPtrToken" -> NewMergeable("IncPtrNode")
      [] tok = "DecPtrToken" -> NewMergeable("DecPtrNode")
      [] tok = "IncByteToken" -> NewMergeable("IncByteNode")
      [] tok = "DecByteToken" -> NewMergeable("DecByteNode")
      [] tok = "OutputToken" -> NewLeaf("OutputNode")
      [] tok = "InputToken" -> NewLeaf("InputNode")

\* parse_command with every failure reported as the end of the file
ParseCommand_AlwaysEof(toks, p) ==
    IF ParserEof(toks, p.index)
    THEN [p EXCEPT !.err = EofMessage]
    ELSE LET tok == Peek(toks, p.index)
         IN  IF tok \in {"LoopStartToken", "LoopEndToken"}
             THEN [p EXCEPT !.index = @ + 1, !.err = EofMessage]
             ELSE [p EXCEPT !.index = @ + 1,
                            !.heap = Alloc(@, CommandNode(tok)),
                            !.node = Len(p.heap) + 1]

\* Parser.parse_command on parser state p = [index, heap, err]: the result is
\* the state after it, with the new node's identity, or with err set when it raises
ParseCommand(toks, p) ==
    IF ParserEof(toks, p.index)
    THEN [p EXCEPT !.err = EofMessage]
    ELSE LET tok == Peek(toks, p.index)
         IN  IF tok \in {"LoopStartToken", "LoopEndToken"}
             THEN [p EXCEPT !.index = @ + 1, !.err = UnexpectedToken(tok)]
             ELSE [p EXCEPT !.index = @ + 1,
                            !.heap = Alloc(@, CommandNode(tok)),
                            !.node = Len(p.heap) + 1]

RECURSIVE ParseLoop(_, _)
RECURSIVE ParseLoopWhile(_, _, _)
RECURSIVE ParseProgramWhile(_, _, _)

\* the body of both while loops: a loop or a command, appended to nodes
ParseBody(toks, p) ==
    LET r == IF Peek(toks, p.index) = "LoopStartToken"
             THEN ParseLoop(toks, p)
             ELSE ParseCommand(toks, p)
    IN  IF r.err # None THEN r ELSE [r EXCEPT !.nodes = Append(p.nodes, r.node)]

\* at most n iterations of parse_loop's while loop, its test included; done is
\* set when the test finds the LoopEndToken
ParseLoopWhile(toks, p, n) ==
    IF p.err # None \/ p.done \/ n = 0 THEN p
    ELSE IF n = 1
    THEN IF ParserEof(toks, p.index) THEN [p EXCEPT !.err = EofMessage]
         ELSE IF Peek(toks, p.index) = "LoopEndToken" THEN [p EXCEPT !.done = TRUE]
         ELSE ParseBody(toks, p)
    ELSE ParseLoopWhile(toks, ParseLoopWhile(toks, p, n \div 2), n - n \div 2)

\* Parser.parse_loop
ParseLoop(toks, p) ==
    IF ParserEof(toks, p.index) THEN [p EXCEPT !.err = EofMessage]
    ELSE IF Peek(toks, p.index) # "LoopStartToken"
    THEN [p EXCEPT !.index = @ + 1, !.err = UnexpectedToken(Peek(toks, p.index))]
    ELSE LET start == [p EXCEPT !.index = @ + 1, !.nodes = <<>>, !.done = FALSE]
             \* every iteration but the last reads a token
             body == ParseLoopWhile(toks, start, Len(toks) - start.index + 1)
         IN  IF body.err # None THEN [body EXCEPT !.nodes = p.nodes, !.done = p.done]
             \* expect(LoopEndToken): the test has just seen it
             ELSE [body EXCEPT !.index = @ + 1,
                               !.heap = Alloc(@, NewContainer("LoopNode", body.nodes)),
                               !.node = Len(body.heap) + 1,
                               !.nodes = p.nodes,
                               !.done = p.done]

\* at most n iterations of parse_program's while loop, its test included
ParseProgramWhile(toks, p, n) ==
    IF p.err # None \/ p.done \/ n = 0 THEN p
    ELSE IF n = 1
    THEN IF ParserEof(toks, p.index) THEN [p EXCEPT !.done = TRUE]
         ELSE ParseBody(toks, p)
    ELSE ParseProgramWhile(toks, ParseProgramWhile(toks, p, n \div 2), n - n \div 2)

\* Parser.parse_program
ParseProgram(toks, p) ==
    LET body == ParseProgramWhile(toks, [p EXCEPT !.nodes = <<>>, !.done = FALSE],
                                  Len(toks) - p.index + 1)
    IN  IF body.err # None THEN body
        ELSE [body EXCEPT !.heap = Alloc(@, NewContainer("ProgramNode", body.nodes)),
                          !.node = Len(body.heap) + 1]

\* Parser(tokens).parse(): index 0, and the nodes it creates go to heap h
Parse(toks, h) ==
    ParseProgram(toks, [index |-> 0, heap |-> h, err |-> None, node |-> 0,
                        nodes |-> <<>>, done |-> FALSE])

\* the tree below an object, as a value
RECURSIVE Value(_, _)
Value(h, id) ==
    LET obj == h[id]
    IN  IF obj.type \in {"ProgramNode", "LoopNode"}
        THEN [obj EXCEPT !.nodes = [i \in 1..Len(obj.nodes) |-> Value(h, obj.nodes[i])]]
        ELSE obj

----------------------------------------------------------------------------
(* Optimizer *)

MaxCount == 255

RECURSIVE Optimize(_, _)
RECURSIVE OptimizeFor(_, _, _, _)

\* the loop body merging a node into any mergeable predecessor, whatever its type
OptimizeStep_AnyType(o, child) ==
    LET r == Optimize(o.heap, child)
        n == r.node
        last == IF o.last_node = 0 THEN NoneObject ELSE r.heap[o.last_node]
    IN  IF IsMergeable(r.heap[n]) /\ IsMergeable(last) /\ last.count < MaxCount
        THEN [o EXCEPT !.heap = [r.heap EXCEPT ![o.last_node].count = @ + 1]]
        ELSE [o EXCEPT !.heap = r.heap, !.nodes = Append(@, n), !.last_node = n]

\* the loop body with the limit tested as count <= 255
OptimizeStep_CapInclusive(o, child) ==
    LET r == Optimize(o.heap, child)
        n == r.node
        last == IF o.last_node = 0 THEN NoneObject ELSE r.heap[o.last_node]
    IN  IF IsMergeable(r.heap[n]) /\ NodeEq(r.heap[n], last) /\ last.count <= MaxCount
        THEN [o EXCEPT !.heap = [r.heap EXCEPT ![o.last_node].count = @ + 1]]
        ELSE [o EXCEPT !.heap = r.heap, !.nodes = Append(@, n), !.last_node = n]

\* the loop body that stops merging one short of the limit
OptimizeStep_EarlyCap(o, child) ==
    LET r == Optimize(o.heap, child)
        n == r.node
        last == IF o.last_node = 0 THEN NoneObject ELSE r.heap[o.last_node]
    IN  IF IsMergeable(r.heap[n]) /\ NodeEq(r.heap[n], last) /\ last.count < MaxCount - 1
        THEN [o EXCEPT !.heap = [r.heap EXCEPT ![o.last_node].count = @ + 1]]
        ELSE [o EXCEPT !.heap = r.heap, !.nodes = Append(@, n), !.last_node = n]

\* one iteration of "for n in node.nodes" on loop state o = [heap, nodes,
\* last_node]; nodes and last_node hold identities, last_node is 0 for None
OptimizeStep(o, child) ==
    LET r == Optimize(o.heap, child)
        n == r.node
        last == IF o.last_node = 0 THEN NoneObject ELSE r.heap[o.last_node]
    IN  IF IsMergeable(r.heap[n]) /\ NodeEq(r.heap[n], last) /\ last.count < MaxCount
        THEN [o EXCEPT !.heap = [r.heap EXCEPT ![o.last_node].count = @ + 1]]
        ELSE [o EXCEPT !.heap = r.heap, !.nodes = Append(@, n), !.last_node = n]

\* the iterations of "for n in node.nodes" on children[lo], ..., children[hi]
OptimizeFor(o, children, lo, hi) ==
    IF lo > hi THEN o
    ELSE IF lo = hi THEN OptimizeStep(o, children[lo])
    ELSE LET mid == (lo + hi) \div 2
             first == OptimizeFor(o, children, lo, mid)
         IN  \* the iterations up to mid have run before the next one starts
             IF Len(first.nodes) <= mid
             THEN OptimizeFor(first, children, mid + 1, hi)
             ELSE first

\* Optimizer.optimize(node) in heap h: the heap after it and the node returned
Optimize(h, id) ==
    IF h[id].type \in {"ProgramNode", "LoopNode"}
    THEN LET o == OptimizeFor([heap |-> h, nodes |-> <<>>, last_node |-> 0],
                              h[id].nodes, 1, Len(h[id].nodes))
         IN  [heap |-> Alloc(o.heap, NewContainer(h[id].type, o.nodes)),
              node |-> Len(o.heap) + 1]
    ELSE [heap |-> h, node |-> id]

----------------------------------------------------------------------------
(* Code generator: the assembler functions *)

\* a | b on non-negative integers
RECURSIVE BitOr(_, _)
BitOr(a, b) ==
    IF a = 0 THEN b
    ELSE IF b = 0 THEN a
    ELSE (IF a % 2 = 1 \/ b % 2 = 1 THEN 1 ELSE 0) + 2 * BitOr(a \div 2, b \div 2)

\* a << k
Shl(a, k) == a * 2 ^ k

\* struct.pack('<I', val)
PackU32(val) ==
    << val % 256, (val \div 256) % 256, (val \div 65536) % 256, (val \div 16777216) % 256 >>

\* struct.pack('<i', val): two's complement, val + 2^32 for a negative val
PackI32(val) ==
    IF val >= 0 THEN PackU32(val)
    ELSE [PackU32((val + 2147483647) + 1) EXCEPT ![4] = @ + 128]

MOV_REG_IMM == 184
MOV_REG_REG == 137
XOR == 49
ADDSUB == 131
INC == 64
DEC == 72
INT == 205
STD == 253
REP == 243
STOSD == 171
JMP == 233
JE == <<15, 132>>
MOD_RR == 3
EAX == 0
ECX == 1
EDX == 2
EBX == 3
ESP == 4
EBP == 5
ESI == 6
EDI == 7
SYSCALL == 128

mov_ri(dst, val) == <<MOV_REG_IMM + dst>> \o PackU32(val)

mov_rr(dst, src) == <<MOV_REG_REG, BitOr(BitOr(dst, Shl(src, 3)), Shl(MOD_RR, 6))>>

xor(dst, src) == <<XOR, BitOr(BitOr(dst, Shl(src, 3)), Shl(MOD_RR, 6))>>

add_reg(dst, val) == <<ADDSUB, BitOr(dst, Shl(MOD_RR, 6)), val>>

sub_reg(dst, val) == <<ADDSUB, BitOr(BitOr(dst, Shl(5, 3)), Shl(MOD_RR, 6)), val>>

add_esp_byte(val) == <<128, 4, 36, val>>

sub_esp_byte(val) == <<128, 44, 36, val>>

inc_reg(reg) == <<INC + reg>>

dec_reg(reg) == <<DEC + reg>>

inc_esp_byte == <<254, 4, 36>>

dec_esp_byte == <<254, 12, 36>>

cmp_esp_byte(val) == <<128, 60, 36, val>>

jmp(rel) == <<JMP>> \o PackI32(rel)

je(rel) == JE \o PackI32(rel)

int(name) == <<INT, name>>

std == <<STD>>

rep_stos == <<REP, STOSD>>

(* Code generator: generate *)

TapeDwords == 262144

Prologue ==
    xor(EAX, EAX) \o mov_ri(ECX, TapeDwords) \o mov_rr(EDI, ESP) \o std \o rep_stos

Epilogue ==
    xor(EAX, EAX) \o inc_reg(EAX) \o xor(EBX, EBX) \o int(SYSCALL)

\* the write (eax = 4, ebx = 1) or read (eax = 3, ebx = 0) of one byte at esp
SyscallCode(number, fd) ==
    mov_ri(EAX, number) \o mov_ri(EBX, fd) \o mov_rr(ECX, ESP) \o mov_ri(EDX, 1)
    \o int(SYSCALL)

\* the loop with a je that does not count the 5 bytes of the jump back
LoopCode_ShortJe(body_code) ==
    cmp_esp_byte(0) \o je(Len(body_code)) \o body_code \o jmp(-Len(body_code) - 15)

\* the loop prelude, the body and the jump back
LoopCode(body_code) ==
    cmp_esp_byte(0) \o je(Len(body_code) + 5) \o body_code \o jmp(-Len(body_code) - 15)

\* IncPtrNode: move down the stack
IncPtrCode(count) == IF count = 1 THEN dec_reg(ESP) ELSE sub_reg(ESP, count)

\* DecPtrNode: move up the stack
DecPtrCode(count) == IF count = 1 THEN inc_reg(ESP) ELSE add_reg(ESP, count)

IncByteCode(count) == IF count = 1 THEN inc_esp_byte ELSE add_esp_byte(count)

DecByteCode(count) == IF count = 1 THEN dec_esp_byte ELSE sub_esp_byte(count)

RECURSIVE Generate(_, _)
RECURSIVE GenerateFor(_, _, _, _)

\* "for node in node.nodes: code += self.generate(node)" on children[lo..hi]
GenerateFor(h, children, lo, hi) ==
    IF lo > hi THEN <<>>
    ELSE IF lo = hi THEN Generate(h, children[lo])
    ELSE LET mid == (lo + hi) \div 2
         IN  GenerateFor(h, children, lo, mid) \o GenerateFor(h, children, mid + 1, hi)

\* CodeGenerator.generate(node)
Generate(h, id) ==
    LET node == h[id]
    IN  CASE node.type = "ProgramNode" ->
               Prologue \o GenerateFor(h, node.nodes, 1, Len(node.nodes)) \o Epilogue
          [] node.type = "LoopNode" ->
               LoopCode(GenerateFor(h, node.nodes, 1, Len(node.nodes)))
          [] node.type = "IncPtrNode" -> IncPtrCode(node.count)
          [] node.type = "DecPtrNode" -> DecPtrCode(node.count)
          [] node.type = "IncByteNode" -> IncByteCode(node.count)
          [] node.type = "DecByteNode" -> DecByteCode(node.count)
          [] node.type = "OutputNode" -> SyscallCode(4, 1)
          [] node.type = "InputNode" -> SyscallCode(3, 0)

----------------------------------------------------------------------------
(* Linker *)

ELF_HDR_SIZE == 52
PRO_HDR_SIZE == 32
LOAD_ADDRESS == 134512640

\* struct.pack('<H', val)
PackU16(val) == << val % 256, (val \div 256) % 256 >>

\* the bytes Linker.write_header writes
WriteHeader ==
    LET entry_point == LOAD_ADDRESS + ELF_HDR_SIZE + PRO_HDR_SIZE
    IN  <<127, 69, 76, 70>> \o <<1>> \o <<1>> \o <<0>> \o <<0>> \o <<0>> \o Rep(0, 7)
        \o PackU16(2) \o PackU16(3) \o PackU32(1) \o PackU32(entry_point)
        \o PackU32(ELF_HDR_SIZE) \o PackU32(0) \o PackU32(0)
        \o PackU16(ELF_HDR_SIZE) \o PackU16(PRO_HDR_SIZE) \o PackU16(1)
        \o PackU16(0) \o PackU16(0) \o PackU16(0)

\* the bytes Linker.write_program_header writes for the code self.code
WriteProgramHeader(self_code) ==
    LET file_size == ELF_HDR_SIZE + PRO_HDR_SIZE + Len(self_code)
    IN  PackU32(1) \o PackU32(0) \o PackU32(LOAD_ADDRESS) \o PackU32(LOAD_ADDRESS)
        \o PackU32(file_size) \o PackU32(file_size) \o PackU32(5) \o PackU32(4096)

\* the file Linker.write leaves: both headers, then main's global code
LinkerImage(self_code, global_code) ==
    WriteHeader \o WriteProgramHeader(self_code) \o global_code

S_IXUSR == 64
S_IXGRP == 8
S_IXOTH == 1

\* perms | stat.S_IXUSR | stat.S_IXGRP | stat.S_IXOTH
AddExecutable(perms) == BitOr(BitOr(BitOr(perms, S_IXUSR), S_IXGRP), S_IXOTH)

----------------------------------------------------------------------------
(* The machines that run a program; neither runs while the compiler does *)

\* the stack pointer the kernel hands to a new process, as a signed 32-bit value
InitialESP == -1073743968

CpuOff ==
    [state |-> "off", eip |-> 0, regs |-> [r \in 0..7 |-> 0], zf |-> FALSE, df |-> FALSE,
     mem |-> <<>>, zeroed |-> [lo |-> 0, hi |-> -1], inpos |-> 0, out |-> <<>>, status |-> 0]

RefOff ==
    [state |-> "off", ip |-> 1, dp |-> 0, tape |-> <<>>, inpos |-> 0, out |-> <<>>]

----------------------------------------------------------------------------
(* Main program *)

\* what an output file left by an earlier run holds, and the mode of a file
\* that open() creates (rw-r--r--) or that the user has set before (rw-------)
NoFile == [exists |-> FALSE, data |-> <<>>]
OldImage == [exists |-> TRUE, data |-> <<79, 76, 68>>]
Unreadable == [readable |-> FALSE, data |-> <<>>]
Readable(data) == [readable |-> TRUE, data |-> data]
CreatedMode == 6 * 64 + 4 * 8 + 4
OldMode == 6 * 64

UsageLine == <<"usage: bfc.py <program.bf>\n">>
ReadErrorLine == <<"err: could not read input file\n">>

\* 'err: ' + str(e) + '\n'
ErrLine(message) == <<"err: ", message, "\n">>

AllStages == <<"lex", "parse", "optimize", "generate", "link">>

Init ==
    /\ pc = "args"
    /\ argc \in {1, 2, 3}
    /\ infile \in (IF argc = 2 THEN {Readable(s) : s \in Sources} \cup {Unreadable}
                               ELSE {Readable(<<>>)})
    /\ outfile \in {NoFile, OldImage}
    /\ outmode = IF outfile.exists THEN OldMode ELSE 0
    /\ opened = FALSE
    /\ source = <<>>
    /\ tokens = <<>>
    /\ heap = <<>>
    /\ tree = 0
    /\ code = <<>>
    /\ stderr = <<>>
    /\ status = NoExit
    /\ stages = <<>>
    /\ stdin = <<>>
    /\ cpu = CpuOff
    /\ ref = RefOff

\* the line on stderr, and an exit with status 0
Fail_ExitZero(line) ==
    /\ stderr' = Append(stderr, line)
    /\ status' = 0
    /\ pc' = "exit"

\* sys.exit(1) after one line on stderr
Fail(line) ==
    /\ stderr' = Append(stderr, line)
    /\ status' = 1
    /\ pc' = "exit"

\* if len(sys.argv) != 2
CheckArgs ==
    /\ pc = "args"
    /\ IF argc # 2 THEN Fail(UsageLine) ELSE pc' = "read" /\ UNCHANGED <<stderr, status>>
    /\ UNCHANGED <<argc, infile, outfile, outmode, opened, source, tokens, heap, tree,
                   code, stages>>
    /\ UNCHANGED execvars

\* source = f.read(), or IOError
ReadSource ==
    /\ pc = "read"
    /\ IF ~infile.readable
       THEN Fail(ReadErrorLine) /\ UNCHANGED source
       ELSE source' = infile.data /\ pc' = "lex" /\ UNCHANGED <<stderr, status>>
    /\ UNCHANGED <<argc, infile, outfile, outmode, opened, tokens, heap, tree, code,
                   stages>>
    /\ UNCHANGED execvars

\* tokens = Lexer(source).tokenize()
Lex ==
    /\ pc = "lex"
    /\ tokens' = Tokenize(source)
    /\ stages' = Append(stages, "lex")
    /\ pc' = "parse"
    /\ UNCHANGED <<argc, infile, outfile, outmode, opened, source, heap, tree, code,
                   stderr, status>>
    /\ UNCHANGED execvars

\* tree = Parser(tokens).parse(), or ParseException
ParseTokens ==
    /\ pc = "parse"
    /\ LET p == Parse(tokens, heap)
       IN  /\ heap' = p.heap
           /\ IF p.err # None
              THEN Fail(ErrLine(p.err)) /\ UNCHANGED <<tree, stages>>
              ELSE /\ tree' = p.node
                   /\ stages' = Append(stages, "parse")
                   /\ pc' = "optimize"
                   /\ UNCHANGED <<stderr, status>>
    /\ UNCHANGED <<argc, infile, outfile, outmode, opened, source, tokens, code>>
    /\ UNCHANGED execvars

\* tree = Optimizer(tree).optimize()
OptimizeTree ==
    /\ pc = "optimize"
    /\ LET r == Optimize(heap, tree)
       IN  heap' = r.heap /\ tree' = r.node
    /\ stages' = Append(stages, "optimize")
    /\ pc' = "generate"
    /\ UNCHANGED <<argc, infile, outfile, outmode, opened, source, tokens, code, stderr,
                   status>>
    /\ UNCHANGED execvars

\* code = CodeGenerator(tree).generate()
GenerateCode ==
    /\ pc = "generate"
    /\ code' = Generate(heap, tree)
    /\ stages' = Append(stages, "generate")
    /\ pc' = "link"
    /\ UNCHANGED <<argc, infile, outfile, outmode, opened, source, tokens, heap, tree,
                   stderr, status>>
    /\ UNCHANGED execvars

\* Linker(code).write(executable_name), and the end of the script
LinkerWrite ==
    /\ pc = "link"
    /\ opened' = TRUE
    /\ outfile' = [exists |-> TRUE, data |-> LinkerImage(code, code)]
    /\ outmode' = AddExecutable(IF outfile.exists THEN outmode ELSE CreatedMode)
    /\ stages' = Append(stages, "link")
    /\ status' = 0
    /\ pc' = "exit"
    /\ UNCHANGED <<argc, infile, source, tokens, heap, tree, code, stderr>>
    /\ UNCHANGED execvars

Next ==
    \/ CheckArgs
    \/ ReadSource
    \/ Lex
    \/ ParseTokens
    \/ OptimizeTree
    \/ GenerateCode
    \/ LinkerWrite

Spec == Init /\ [][Next]_vars

----------------------------------------------------------------------------
(* What the emitted bytes mean to an 80386 *)

\* an 8-bit immediate as opcode 0x83 reads it: sign-extended to 32 bits
SignExtend8(byte) == IF byte < 128 THEN byte ELSE byte - 256

\* a little-endian 32-bit displacement, signed
DecodeI32(b1, b2, b3, b4) ==
    IF b4 < 128
    THEN b1 + 256 * b2 + 65536 * b3 + 16777216 * b4
    ELSE ((b1 + 256 * b2 + 65536 * b3 + 16777216 * (b4 - 128)) - 2147483647) - 1

\* the change of ESP made by one pointer instruction: dec esp, inc esp,
\* sub esp, imm8 or add esp, imm8
EspChange(bytes) ==
    CASE bytes = <<76>> -> -1
      [] bytes = <<68>> -> 1
      [] Len(bytes) = 3 /\ bytes[1] = 131 /\ bytes[2] = 236 -> 0 - SignExtend8(bytes[3])
      [] Len(bytes) = 3 /\ bytes[1] = 131 /\ bytes[2] = 196 -> SignExtend8(bytes[3])

----------------------------------------------------------------------------
(* Helpers of the properties *)

Range(f) == {f[i] : i \in DOMAIN f}

IsContainer(n) == n.type \in {"ProgramNode", "LoopNode"}

\* the objects of the tree below an object, itself included
RECURSIVE Reach(_, _)
Reach(h, id) ==
    {id} \cup (IF IsContainer(h[id])
               THEN UNION {Reach(h, c) : c \in Range(h[id].nodes)}
               ELSE {})

\* the main program has a finished tree: the optimizer has returned
Optimized == pc \in {"generate", "link"} \/ (pc = "exit" /\ opened)

\* the parser has raised ParseException
ParseFailed == pc = "exit" /\ stages = <<"lex">>

\* '[' minus ']' among the first k tokens
Depth(toks, k) ==
    Cardinality({i \in 1..k : toks[i] = "LoopStartToken"})
    - Cardinality({i \in 1..k : toks[i] = "LoopEndToken"})

\* some ']' has no open '[' before it
HasStrayEnd(toks) == \E k \in 1..Len(toks) : Depth(toks, k) < 0

\* no ']' is stray, and some '[' is never closed
HasOpenLoop(toks) == ~HasStrayEnd(toks) /\ Depth(toks, Len(toks)) > 0

Balanced(toks) == ~HasStrayEnd(toks) /\ Depth(toks, Len(toks)) = 0

----------------------------------------------------------------------------
(* C2 *)

\* C2: the parser returns a ProgramNode, having read every token, exactly when
\* the brackets are balanced; a sequence with a ']' that has no open '[' (at
\* the top level too) raises 'unexpected token LoopEndToken', and one whose
\* only fault is a '[' that is never closed raises 'unexpected end of file'.
C2_ParseOutcome ==
    (pc = "optimize" \/ ParseFailed) =>
        LET p == Parse(tokens, <<>>)
        IN  /\ Balanced(tokens) =>
                  /\ pc = "optimize"
                  /\ p.err = None
                  /\ p.index = Len(tokens)
                  /\ heap = p.heap /\ tree = p.node
                  /\ heap[tree].type = "ProgramNode"
            /\ HasStrayEnd(tokens) =>
                  /\ ParseFailed
                  /\ p.err = "unexpected token LoopEndToken"
                  /\ stderr = << <<"err: ", "unexpected token LoopEndToken", "\n">> >>
            /\ HasOpenLoop(tokens) =>
                  /\ ParseFailed
                  /\ p.err = "unexpected end of file"
                  /\ stderr = << <<"err: ", "unexpected end of file", "\n">> >>

\* a stray ']' at the top level, after a closed loop, has been rejected
C2_Witness ==
    /\ ParseFailed
    /\ tokens = <<"LoopStartToken", "LoopEndToken", "LoopEndToken">>
    /\ stderr = << <<"err: ", "unexpected token LoopEndToken", "\n">> >>

----------------------------------------------------------------------------
(* C3 *)

\* C3: when the parser raises, the process writes the one line 'err: <message>'
\* to stderr and exits with status 1, and the output file is left as it was,
\* never opened; Linker.write is reached only after lexing, parsing,
\* optimization and code generation have completed, in that order.
C3_ParseFailureAndOrder ==
    /\ ParseFailed =>
          /\ stderr = << <<"err: ", Parse(tokens, <<>>).err, "\n">> >>
          /\ Parse(tokens, <<>>).err \in {"unexpected end of file",
                                          "unexpected token LoopEndToken"}
          /\ status = 1
    /\ (tokens # <<>> /\ ~Balanced(tokens)) =>
          /\ ~opened
          /\ pc \notin {"optimize", "generate", "link"}
          /\ outfile \in {NoFile, OldImage}
          /\ outmode = (IF outfile.exists THEN OldMode ELSE 0)
    /\ pc = "link" => stages = <<"lex", "parse", "optimize", "generate">>
    /\ opened => stages = <<"lex", "parse", "optimize", "generate", "link">>
    /\ ~opened => outfile \in {NoFile, OldImage}

\* the source '[+' has failed to compile and no output file exists
C3_Witness ==
    /\ pc = "exit"
    /\ source = <<"[", "+">>
    /\ stderr = << <<"err: ", "unexpected end of file", "\n">> >>
    /\ status = 1
    /\ ~opened
    /\ outfile = NoFile

----------------------------------------------------------------------------
(* C4 *)

\* C4: for every IncPtr or DecPtr node with a count N in 2..255, the emitted
\* instruction is sub esp, imm8 or add esp, imm8 whose immediate, sign-extended
\* as opcode 0x83 does, equals N, so that it moves ESP by as much as the N
\* single dec esp / inc esp instructions of the unoptimized tree.
C4_PointerImmediate ==
    pc = "link" =>
        \A id \in Reach(heap, tree) :
            (heap[id].type \in {"IncPtrNode", "DecPtrNode"} /\ heap[id].count \in 2..255) =>
                LET merged == Generate(heap, id)
                    single == Generate(<<[heap[id] EXCEPT !.count = 1]>>, 1)
                IN  /\ Len(merged) = 3
                    /\ merged[1] = 131
                    /\ merged[2] = (IF heap[id].type = "IncPtrNode" THEN 236 ELSE 196)
                    /\ SignExtend8(merged[3]) = heap[id].count
                    /\ EspChange(merged) = heap[id].count * EspChange(single)

----------------------------------------------------------------------------
(* C5 *)

\* C5: the file starts with the 16 bytes 7F 45 4C 46, class 1, data 1,
\* version 1, OSABI 0, ABI version 0 and 7 zero bytes, and the ELF header is
\* 52 bytes long, the program header and the code following it.
C5_Ident ==
    opened =>
        /\ SubSeq(outfile.data, 1, 16) = <<127, 69, 76, 70, 1, 1, 1, 0, 0, 0, 0, 0, 0, 0, 0, 0>>
        /\ Len(WriteHeader) = 52
        /\ Len(outfile.data) = 52 + 32 + Len(code)

----------------------------------------------------------------------------
(* C6 *)

\* the loops of the tree below an object whose code starts at address base,
\* each with the address of its own code
RECURSIVE LoopAddresses(_, _, _)
LoopAddresses(h, id, base) ==
    IF ~IsContainer(h[id]) THEN {}
    ELSE LET children == h[id].nodes
             first == base + (IF h[id].type = "ProgramNode" THEN Len(Prologue) ELSE 10)
             at(i) == first + Len(GenerateFor(h, children, 1, i - 1))
         IN  (IF h[id].type = "LoopNode" THEN {<<id, base>>} ELSE {})
             \cup UNION {LoopAddresses(h, children[i], at(i)) : i \in 1..Len(children)}

\* the byte at an address of the code buffer
ByteAt(bytes, addr) == bytes[addr + 1]

DispAt(bytes, addr) ==
    DecodeI32(ByteAt(bytes, addr), ByteAt(bytes, addr + 1), ByteAt(bytes, addr + 2),
              ByteAt(bytes, addr + 3))

\* C6: for every loop at any depth, the je of its prelude lands on the byte
\* after its trailing jmp, that jmp lands on its cmp byte [esp], 0, and a body
\* of B bytes makes B + 15 bytes.
C6_JumpClosure ==
    pc = "link" =>
        \A la \in LoopAddresses(heap, tree, 0) :
            LET start == la[2]
                B == Len(GenerateFor(heap, heap[la[1]].nodes, 1, Len(heap[la[1]].nodes)))
                total == Len(Generate(heap, la[1]))
                end == start + total
            IN  /\ total = B + 15
                /\ end <= Len(code)
                \* cmp byte [esp], 0 ; je rel32
                /\ SubSeq(code, start + 1, start + 6) = <<128, 60, 36, 0, 15, 132>>
                /\ (start + 10) + DispAt(code, start + 6) = end
                \* body ; jmp rel32
                /\ SubSeq(code, start + 11, start + 10 + B)
                       = GenerateFor(heap, heap[la[1]].nodes, 1, Len(heap[la[1]].nodes))
                /\ ByteAt(code, end - 5) = 233
                /\ end + DispAt(code, end - 4) = start

\* code was generated for a loop inside a loop inside a loop
C6_Witness ==
    /\ pc = "link"
    /\ \E a, b, c \in LoopAddresses(heap, tree, 0) :
           /\ a[2] < b[2] /\ b[2] < c[2]
           /\ c[2] + Len(Generate(heap, c[1])) < b[2] + Len(Generate(heap, b[1]))
           /\ b[2] + Len(Generate(heap, b[1])) < a[2] + Len(Generate(heap, a[1]))
    /\ \E a \in LoopAddresses(heap, tree, 0) : Len(Generate(heap, a[1])) > 15

----------------------------------------------------------------------------
(* C7 *)

RECURSIVE ExpandTree(_)
RECURSIVE ExpandNodes(_, _)

\* the nodes from the i-th on, each mergeable node replaced by count nodes of
\* count 1 of its type
ExpandNodes(nodes, i) ==
    IF i > Len(nodes) THEN <<>>
    ELSE (IF IsMergeable(nodes[i])
          THEN Rep([type |-> nodes[i].type, count |-> 1], nodes[i].count)
          ELSE <<ExpandTree(nodes[i])>>)
         \o ExpandNodes(nodes, i + 1)

ExpandTree(v) ==
    IF IsContainer(v) THEN [v EXCEPT !.nodes = ExpandNodes(v.nodes, 1)] ELSE v

\* C7: expanding every mergeable node of the optimizer's result into count
\* nodes of count 1, in loop bodies too, gives the tree the parser built.
C7_ExpandIsInput ==
    [][pc = "optimize" => ExpandTree(Value(heap', tree')) = Value(heap, tree)]_vars

\* a tree with a merged node inside a loop and nodes the optimizer must not merge
C7_Witness ==
    /\ pc = "generate"
    /\ \E id \in Reach(heap, tree) :
           /\ heap[id].type = "LoopNode"
           /\ \E c \in Range(heap[id].nodes) : IsMergeable(heap[c]) /\ heap[c].count > 1
    /\ Len(heap[tree].nodes) > 1

----------------------------------------------------------------------------
(* C8 *)

\* C8: every mergeable node of the optimized tree, at any depth, has a count
\* in 1..255.
C8_CountRange ==
    Optimized =>
        \A id \in Reach(heap, tree) : IsMergeable(heap[id]) => heap[id].count \in 1..255

\* a run longer than 255 identical commands has been optimized
C8_Witness ==
    /\ pc = "generate"
    /\ Len(tokens) > 255
    /\ \A i \in 1..Len(tokens) : tokens[i] = "IncByteToken"
    /\ heap[heap[tree].nodes[1]].count = 255

----------------------------------------------------------------------------
(* C9 *)

\* the end of the run of nodes of one mergeable type that starts at i
RunEnd(nodes, i) ==
    CHOOSE j \in i..Len(nodes) :
        /\ \A k \in i..j : nodes[k].type = nodes[i].type
        /\ j = Len(nodes) \/ nodes[j + 1].type # nodes[i].type

\* a run of L nodes: L \div 255 nodes of count 255, then the remainder if any
SplitRun(type, L) ==
    [k \in 1..((L + 254) \div 255) |->
        [type |-> type, count |-> IF k <= L \div 255 THEN 255 ELSE L % 255]]

RECURSIVE EncodeTree(_)
RECURSIVE EncodeNodes(_, _)

EncodeNodes(nodes, i) ==
    IF i > Len(nodes) THEN <<>>
    ELSE IF IsMergeable(nodes[i])
    THEN SplitRun(nodes[i].type, RunEnd(nodes, i) - i + 1)
         \o EncodeNodes(nodes, RunEnd(nodes, i) + 1)
    ELSE <<EncodeTree(nodes[i])>> \o EncodeNodes(nodes, i + 1)

EncodeTree(v) ==
    IF IsContainer(v) THEN [v EXCEPT !.nodes = EncodeNodes(v.nodes, 1)] ELSE v

\* no two neighbours in a body are mergeable nodes of one type with counts
\* that add up to 255 or less
Maximal ==
    \A id \in Reach(heap, tree) :
        IsContainer(heap[id]) =>
            \A i \in 1..(Len(heap[id].nodes) - 1) :
                LET a == heap[heap[id].nodes[i]]
                    b == heap[heap[id].nodes[i + 1]]
                IN  ~(IsMergeable(a) /\ IsMergeable(b) /\ a.type = b.type
                      /\ a.count + b.count <= 255)

\* C9: in the optimized tree no two adjacent siblings are mergeable nodes of
\* the same type with a combined count of 255 or less, and every run of L
\* identical commands has become L \div 255 nodes of count 255 followed by one
\* node with the remainder when that is not zero.
C9_MaximalRuns ==
    /\ [](Optimized => Maximal)
    /\ [][pc = "optimize" => Value(heap', tree') = EncodeTree(Value(heap, tree))]_vars

\* a run of 511 has become 255, 255, 1 and a run of 510 inside a loop 255, 255
C9_Witness ==
    /\ pc = "generate"
    /\ \E id \in Reach(heap, tree) :
           /\ IsContainer(heap[id])
           /\ Len(heap[id].nodes) >= 2
           /\ heap[heap[id].nodes[1]].type = "IncPtrNode"
           /\ heap[heap[id].nodes[1]].count = 255
           /\ heap[heap[id].nodes[2]].type = "IncPtrNode"
           /\ heap[heap[id].nodes[2]].count = 255

----------------------------------------------------------------------------
(* C10 *)

\* C10: the optimizer leaves its input tree as it was: every node of the tree
\* it was given has the type, the count and the children it had before.
C10_InputUntouched ==
    [][pc = "optimize" => Value(heap', tree) = Value(heap, tree)]_vars

----------------------------------------------------------------------------
(* The 80386 running the emitted code: the instructions the generator emits *)

\* x + d in 32 bits, on signed values
Add32(x, d) ==
    IF d >= 0
    THEN IF x > 2147483647 - d
         THEN ((x - 2147483647) - 1) + ((d - 2147483647) - 1)
         ELSE x + d
    ELSE IF x < (-2147483647 - 1) - d
         THEN ((x + 2147483647) + 1) + ((d + 2147483647) + 1)
         ELSE x + d

\* bytes that memory never written by the program may hold
UnknownBytes == {0, 1, 191}

\* the bytes above the initial stack pointer that the kernel has mapped
\* (argc, argv, the environment); an access above them is a fault
StackAbove == 255

Mapped(addr) == addr <= InitialESP + StackAbove

\* whether the byte at an address is known: written, or zeroed by the prologue
Known(c, addr) ==
    addr \in DOMAIN c.mem \/ (addr >= c.zeroed.lo /\ addr <= c.zeroed.hi)

\* the byte at an address; u is what it holds when it is not known
MemRead(c, addr, u) ==
    IF addr \in DOMAIN c.mem THEN c.mem[addr]
    ELSE IF addr >= c.zeroed.lo /\ addr <= c.zeroed.hi THEN 0
    ELSE u

MemWrite(c, addr, byte) == (addr :> byte) @@ c.mem

Fault(c) == [c EXCEPT !.state = "fault"]

\* the ModR/M fields
ModOf(modrm) == modrm \div 64
RegOf(modrm) == (modrm \div 8) % 8
RmOf(modrm) == modrm % 8

\* one instruction at c.eip of the code buffer; u stands for unknown memory
Execute(bytes, c, in, u) ==
    LET at(k) == ByteAt(bytes, c.eip + k)
        op == at(0)
        esp == c.regs[ESP]
        cell == MemRead(c, esp, u)
        \* the operand of the byte instructions is [esp]: ModR/M mod 00, r/m 100,
        \* SIB 0x24
        onEspByte == ModOf(at(1)) = 0 /\ RmOf(at(1)) = 4 /\ at(2) = 36
        store(v, len) == [c EXCEPT !.mem = MemWrite(c, esp, v), !.zf = (v = 0),
                                   !.eip = @ + len]
    IN  CASE op \in {128, 254} /\ ~Mapped(esp) -> Fault(c)
          [] op = 205 /\ c.regs[EAX] \in {3, 4} /\ ~Mapped(c.regs[ECX]) -> Fault(c)
          [] op = 49 ->                                   \* xor r/m32, r32
               IF ModOf(at(1)) = 3 /\ RegOf(at(1)) = RmOf(at(1))
               THEN [c EXCEPT !.regs[RmOf(at(1))] = 0, !.zf = TRUE, !.eip = @ + 2]
               ELSE Fault(c)
          [] op \in 184..191 ->                           \* mov r32, imm32
               [c EXCEPT !.regs[op - 184] = DecodeI32(at(1), at(2), at(3), at(4)),
                         !.eip = @ + 5]
          [] op = 137 ->                                  \* mov r/m32, r32
               IF ModOf(at(1)) = 3
               THEN [c EXCEPT !.regs[RmOf(at(1))] = c.regs[RegOf(at(1))], !.eip = @ + 2]
               ELSE Fault(c)
          [] op = 253 -> [c EXCEPT !.df = TRUE, !.eip = @ + 1]    \* std
          [] op = 243 ->                                  \* rep stosd, downwards
               IF at(1) = 171 /\ c.df /\ c.regs[EAX] = 0 /\ c.regs[ECX] > 0
               THEN [c EXCEPT !.zeroed = [lo |-> c.regs[EDI] - 4 * (c.regs[ECX] - 1),
                                          hi |-> c.regs[EDI] + 3],
                              !.mem = <<>>,
                              !.regs[EDI] = Add32(@, 0 - 4 * c.regs[ECX]),
                              !.regs[ECX] = 0,
                              !.eip = @ + 2]
               ELSE Fault(c)
          [] op \in 64..71 ->                             \* inc r32
               [c EXCEPT !.regs[op - 64] = Add32(@, 1),
                         !.zf = (Add32(c.regs[op - 64], 1) = 0), !.eip = @ + 1]
          [] op \in 72..79 ->                             \* dec r32
               [c EXCEPT !.regs[op - 72] = Add32(@, -1),
                         !.zf = (Add32(c.regs[op - 72], -1) = 0), !.eip = @ + 1]
          [] op = 131 ->                                  \* add/sub r/m32, imm8
               LET r == RmOf(at(1))
                   imm == SignExtend8(at(2))
                   v == IF RegOf(at(1)) = 0 THEN Add32(c.regs[r], imm)
                        ELSE Add32(c.regs[r], 0 - imm)
               IN  IF ModOf(at(1)) = 3 /\ RegOf(at(1)) \in {0, 5}
                   THEN [c EXCEPT !.regs[r] = v, !.zf = (v = 0), !.eip = @ + 3]
                   ELSE Fault(c)
          [] op = 128 ->                                  \* add/sub/cmp byte [esp], imm8
               IF ~onEspByte THEN Fault(c)
               ELSE IF RegOf(at(1)) = 0 THEN store((cell + at(3)) % 256, 4)
               ELSE IF RegOf(at(1)) = 5 THEN store((cell - at(3)) % 256, 4)
               ELSE IF RegOf(at(1)) = 7
               THEN [c EXCEPT !.mem = MemWrite(c, esp, cell), !.zf = (cell = at(3)),
                              !.eip = @ + 4]
               ELSE Fault(c)
          [] op = 254 ->                                  \* inc/dec byte [esp]
               IF ~onEspByte THEN Fault(c)
               ELSE IF RegOf(at(1)) = 0 THEN store((cell + 1) % 256, 3)
               ELSE IF RegOf(at(1)) = 1 THEN store((cell - 1) % 256, 3)
               ELSE Fault(c)
          [] op = 15 ->                                   \* je rel32
               IF at(1) # 132 THEN Fault(c)
               ELSE [c EXCEPT !.eip = (@ + 6)
                                  + (IF c.zf THEN DispAt(bytes, c.eip + 2) ELSE 0)]
          [] op = 233 ->                                  \* jmp rel32
               [c EXCEPT !.eip = (@ + 5) + DispAt(bytes, c.eip + 1)]
          [] op = 205 ->                                  \* int 0x80
               IF at(1) # 128 THEN Fault(c)
               ELSE IF c.regs[EAX] = 1                    \* exit(ebx)
               THEN [c EXCEPT !.state = "exited", !.status = c.regs[EBX] % 256]
               ELSE IF c.regs[EAX] = 4 /\ c.regs[EBX] = 1 /\ c.regs[EDX] = 1
               THEN                                       \* write(1, ecx, 1)
                    [c EXCEPT !.out = Append(@, MemRead(c, c.regs[ECX], u)),
                              !.mem = MemWrite(c, c.regs[ECX], MemRead(c, c.regs[ECX], u)),
                              !.regs[EAX] = 1, !.eip = @ + 2]
               ELSE IF c.regs[EAX] = 3 /\ c.regs[EBX] = 0 /\ c.regs[EDX] = 1
               THEN                                       \* read(0, ecx, 1)
                    IF c.inpos < Len(in)
                    THEN [c EXCEPT !.mem = MemWrite(c, c.regs[ECX], in[c.inpos + 1]),
                                   !.inpos = @ + 1, !.regs[EAX] = 1, !.eip = @ + 2]
                    ELSE [c EXCEPT !.regs[EAX] = 0, !.eip = @ + 2]
               ELSE Fault(c)
          [] OTHER -> Fault(c)

\* the instruction at eip reads a byte of memory that is not known
ReadsUnknown(bytes, c) ==
    \/ ByteAt(bytes, c.eip) \in {128, 254} /\ ~Known(c, c.regs[ESP])
    \/ ByteAt(bytes, c.eip) = 205 /\ c.regs[EAX] = 4 /\ ~Known(c, c.regs[ECX])

\* the process as the kernel starts it at the entry point, the first byte of
\* the code
CpuStart ==
    [CpuOff EXCEPT !.state = "running", !.regs[ESP] = InitialESP]

----------------------------------------------------------------------------
(* The reference Brainfuck machine: a tape of zero bytes from cell 0 on *)

Cell(r) == IF r.dp \in DOMAIN r.tape THEN r.tape[r.dp] ELSE 0

SetCell(r, v) == (r.dp :> v) @@ r.tape

\* '[' minus ']' in src[i..j]
Nesting(src, i, j) ==
    Cardinality({k \in i..j : src[k] = "["}) - Cardinality({k \in i..j : src[k] = "]"})

\* the ']' that closes the '[' at i, and the '[' that the ']' at j closes
MatchingEnd(src, i) ==
    CHOOSE j \in (i + 1)..Len(src) :
        Nesting(src, i, j) = 0 /\ \A k \in i..(j - 1) : Nesting(src, i, k) > 0

MatchingStart(src, j) ==
    CHOOSE i \in 1..(j - 1) :
        Nesting(src, i, j) = 0 /\ \A k \in (i + 1)..j : Nesting(src, k, j) < 0

\* one character of the source; anything but the eight commands is a comment
Interpret(src, r, in) ==
    LET ch == src[r.ip]
        next(q) == [q EXCEPT !.ip = @ + 1]
    IN  CASE ch = ">" -> next([r EXCEPT !.dp = @ + 1])
          [] ch = "<" -> IF r.dp = 0 THEN [r EXCEPT !.state = "fault"]
                         ELSE next([r EXCEPT !.dp = @ - 1])
          [] ch = "+" -> next([r EXCEPT !.tape = SetCell(r, (Cell(r) + 1) % 256)])
          [] ch = "-" -> next([r EXCEPT !.tape = SetCell(r, (Cell(r) - 1) % 256)])
          [] ch = "." -> next([r EXCEPT !.out = Append(@, Cell(r))])
          [] ch = "," -> IF r.inpos < Len(in)
                         THEN next([r EXCEPT !.tape = SetCell(r, in[r.inpos + 1]),
                                             !.inpos = @ + 1])
                         ELSE next(r)
          [] ch = "[" -> IF Cell(r) = 0 THEN [r EXCEPT !.ip = MatchingEnd(src, r.ip) + 1]
                         ELSE next(r)
          [] ch = "]" -> IF Cell(r) # 0 THEN [r EXCEPT !.ip = MatchingStart(src, r.ip) + 1]
                         ELSE next(r)
          [] OTHER -> next(r)

RefStart == [RefOff EXCEPT !.state = "running"]

----------------------------------------------------------------------------
(* Running a compiled program beside the reference machine *)

MaxInput == 1

InputBytes == {0, 65}

Inputs == UNION {[1..n -> InputBytes] : n \in 0..MaxInput}

\* sources that compile: the short ones, the documentation's, and runs of
\* every length of RunLengths before an output
ExecSources ==
    {s \in ShortSources \cup NamedSources : Balanced(Tokenize(s))}
    \cup {Rep("+", n) \o <<".">> : n \in RunLengths}
    \cup {Rep("-", n) \o <<".">> : n \in RunLengths}
    \cup {<<"+", ">", "+">> \o Rep(">", n) \o <<".">> : n \in RunLengths}
    \cup {Rep(">", n) \o <<"+", ".">> \o Rep("<", n) \o <<".">> : n \in RunLengths}

\* the state the main program leaves after compiling a source, and both
\* machines about to start
InitExec ==
    /\ argc = 2
    /\ source \in ExecSources
    /\ infile = Readable(source)
    /\ tokens = Tokenize(source)
    /\ LET p == Parse(tokens, <<>>)
           o == Optimize(p.heap, p.node)
       IN  /\ heap = o.heap
           /\ tree = o.node
           /\ code = Generate(o.heap, o.node)
    /\ outfile = [exists |-> TRUE, data |-> LinkerImage(code, code)]
    /\ outmode = AddExecutable(CreatedMode)
    /\ opened = TRUE
    /\ stderr = <<>>
    /\ status = 0
    /\ stages = AllStages
    /\ pc = "exit"
    /\ stdin \in (IF \E i \in 1..Len(source) : source[i] = "," THEN Inputs ELSE {<<>>})
    /\ cpu = CpuStart
    /\ ref = RefStart

\* the processor executes the instruction at eip of the loaded code
CpuStep ==
    /\ cpu.state = "running"
    /\ \E u \in (IF ReadsUnknown(code, cpu) THEN UnknownBytes ELSE {0}) :
           cpu' = Execute(code, cpu, stdin, u)
    /\ UNCHANGED <<mainvars, stdin, ref>>

\* the reference machine takes its next command, once the processor has stopped
RefStep ==
    /\ cpu.state # "running"
    /\ ref.state = "running"
    /\ ref' = IF ref.ip > Len(source) THEN [ref EXCEPT !.state = "halted"]
              ELSE Interpret(source, ref, stdin)
    /\ UNCHANGED <<mainvars, stdin, cpu>>

NextExec ==
    \/ CpuStep
    \/ RefStep

SpecExec == InitExec /\ [][NextExec]_vars

----------------------------------------------------------------------------
(* C1 *)

\* C1: the emitted program writes to stdout exactly the bytes the reference
\* machine writes for the source, and once the source's run has ended the
\* emitted program has reached the exit system call with status 0.
C1_SameBehaviour ==
    (cpu.state # "running" /\ ref.state = "halted") =>
        /\ cpu.state = "exited"
        /\ cpu.status = 0
        /\ cpu.out = ref.out

====
